---- MODULE Spec2Model ----
(***************************************************************************)
(* The D3 scatterplot tutorial scripts (drawScatter) as a state machine:   *)
(* the page loads one of the scripts, the dataset fetch resolves or        *)
(* rejects, the render pass builds the svg tree in one uninterrupted run,  *)
(* and afterwards the browser dispatches mouseenter / mouseleave events to *)
(* the registered handlers.                                                *)
(*                                                                         *)
(* Numbers are exact rationals <<n, d>> (d > 0, lowest terms); NaN is      *)
(* <<0, 0>>.  The library calls the scripts make (d3.extent, scaleLinear,  *)
(* nice, selection.data/join, Delaunay/Voronoi, d3.format) are operators   *)
(* that compute what the calls compute.                                    *)
(***************************************************************************)
EXTENDS Integers, Sequences, FiniteSets, TLC

VARIABLES
    script,      \* which script file the page loads
    window,      \* [innerWidth, innerHeight] of the browser window
    pc,          \* "fetching" | "rendered" | "rejected"
    dataset,     \* the array d3.json resolved with
    dimensions,  \* the dimensions object of drawScatter
    scales,      \* the domains and ranges of xScale, yScale, colorScale
    svg,         \* the children of #wrapper appended by the script
    bounds,      \* the children of the bounds <g>, in document order
    tooltip,     \* the #tooltip element: opacity, texts, transform
    other,       \* a second invocation of drawScatter on the same page
    event        \* the operation that ran last (history)

vars == <<script, window, pc, dataset, dimensions, scales, svg, bounds, tooltip,
          other, event>>

------------------------------------------------------------------------------
(* Bounds of the model *)

MaxLen == 3      \* longest dataset
MaxDots == 2     \* most highlight circles present at once
GridN == 4       \* probe locations per axis of the plot rectangle
MaxRedrawLen == 2  \* longest dataset whose draw step is run again

------------------------------------------------------------------------------
(* Exact arithmetic standing for JavaScript numbers *)

Abs(x) == IF x < 0 THEN -x ELSE x

RECURSIVE GCD(_, _)
GCD(a, b) == IF b = 0 THEN a ELSE GCD(b, a % b)

NaN == <<0, 0>>

IsNaN(a) == a[2] = 0

Rat(n, d) ==
    IF d = 0 THEN NaN
    ELSE LET g == GCD(Abs(n), Abs(d))
             s == IF d < 0 THEN -1 ELSE 1
         IN  <<(s * n) \div g, (s * d) \div g>>

Num(n) == <<n, 1>>

RAdd(a, b) == IF IsNaN(a) \/ IsNaN(b) THEN NaN
              ELSE Rat(a[1] * b[2] + b[1] * a[2], a[2] * b[2])

RSub(a, b) == IF IsNaN(a) \/ IsNaN(b) THEN NaN
              ELSE Rat(a[1] * b[2] - b[1] * a[2], a[2] * b[2])

RMul(a, b) == IF IsNaN(a) \/ IsNaN(b) THEN NaN
              ELSE Rat(a[1] * b[1], a[2] * b[2])

RDiv(a, b) == IF IsNaN(a) \/ IsNaN(b) THEN NaN
              ELSE Rat(a[1] * b[2], a[2] * b[1])

\* comparisons with NaN are false, as in JavaScript
RLt(a, b) == ~IsNaN(a) /\ ~IsNaN(b) /\ a[1] * b[2] < b[1] * a[2]
RLe(a, b) == ~IsNaN(a) /\ ~IsNaN(b) /\ a[1] * b[2] <= b[1] * a[2]

RFloor(a) == a[1] \div a[2]
RCeil(a) == -((-a[1]) \div a[2])
\* Math.round: the nearest integer, halves upward
RRound(a) == RFloor(RAdd(a, <<1, 2>>))

RECURSIVE Pow10(_)
Pow10(k) == IF k = 0 THEN <<1, 1>>
            ELSE IF k > 0 THEN RMul(Pow10(k - 1), <<10, 1>>)
            ELSE RMul(Pow10(k + 1), <<1, 10>>)

------------------------------------------------------------------------------
(* The records of my_weather_data.json: the fields the scripts read *)

Rec(dp, hm, cc, dt) == [dewPoint |-> dp, humidity |-> hm, cloudCover |-> cc, date |-> dt]

Records ==
    { Rec(Num(40), <<1, 2>>, <<27, 100>>, <<2019, 1, 1>>),
      Rec(Num(60), <<4, 5>>, <<9, 10>>, <<2019, 6, 1>>),
      Rec(Num(50), <<3, 5>>, <<1, 2>>, <<2019, 3, 15>>),
      Rec(Num(40), <<1, 2>>, <<9, 10>>, <<2018, 12, 31>>) }

RECURSIVE SeqsUpTo(_, _)
SeqsUpTo(S, n) ==
    IF n = 0 THEN {<<>>}
    ELSE LET shorter == SeqsUpTo(S, n - 1)
         IN  shorter \cup {Append(s, x) : s \in {t \in shorter : Len(t) = n - 1}, x \in S}

Datasets == SeqsUpTo(Records, MaxLen)

\* the browser window the page is opened in
Windows == { [innerWidth |-> 800, innerHeight |-> 600] }

Scripts == {"part_000", "part_001", "part_004", "part_005"}

xAccessor(d) == d.dewPoint
yAccessor(d) == d.humidity
colorAccessor(d) == d.cloudCover

------------------------------------------------------------------------------
(* Step 2: chart dimensions *)

\* mutant: the width is taken from the window's width alone
ChartWidth_WidthOnly(w) == RMul(Num(w.innerWidth), <<9, 10>>)

\* d3.min([window.innerWidth * 0.9, window.innerHeight * 0.9])
ChartWidth(w) ==
    LET a == RMul(Num(w.innerWidth), <<9, 10>>)
        b == RMul(Num(w.innerHeight), <<9, 10>>)
    IN  IF RLe(a, b) THEN a ELSE b

Margin(s) ==
    IF s = "part_004"
    THEN [top |-> 20, right |-> 20, bottom |-> 50, left |-> 70]
    ELSE [top |-> 10, right |-> 10, bottom |-> 50, left |-> 50]

\* mutant: the bounded height is computed with the horizontal margins
Dimensions_SameMargins(s, w) ==
    LET width == ChartWidth(w)
        m == Margin(s)
    IN  [ width |-> width,
          height |-> width,
          margin |-> m,
          boundedWidth |-> RSub(RSub(width, Num(m.left)), Num(m.right)),
          boundedHeight |-> RSub(RSub(width, Num(m.left)), Num(m.right)) ]

Dimensions(s, w) ==
    LET width == ChartWidth(w)
        m == Margin(s)
    IN  [ width |-> width,
          height |-> width,
          margin |-> m,
          boundedWidth |-> RSub(RSub(width, Num(m.left)), Num(m.right)),
          boundedHeight |-> RSub(RSub(width, Num(m.top)), Num(m.bottom)) ]

NoDimensions ==
    [ width |-> NaN, height |-> NaN,
      margin |-> [top |-> 0, right |-> 0, bottom |-> 0, left |-> 0],
      boundedWidth |-> NaN, boundedHeight |-> NaN ]

------------------------------------------------------------------------------
(* Step 4: scales *)

SeqRange(s) == {s[k] : k \in 1..Len(s)}

\* the accessor applied to every record
xValues(D) == [i \in 1..Len(D) |-> xAccessor(D[i])]
yValues(D) == [i \in 1..Len(D) |-> yAccessor(D[i])]
colorValues(D) == [i \in 1..Len(D) |-> colorAccessor(D[i])]

\* a field that is not a number: absent from the record (undefined), or a
\* string that does not read as a number.  Both convert to NaN, which is what
\* the arithmetic makes of them (their second component is 0).
Undefined == <<0, 0, "undefined">>
NonNumeric == <<0, 0, "N/A">>

IsString(v) == Len(v) = 3 /\ v # Undefined

\* a < b in JavaScript: two strings compare as strings (the model has one
\* non-numeric string, and it is not less than itself), anything else as
\* numbers, and a comparison with NaN is false
JsLt(a, b) == IF IsString(a) /\ IsString(b) THEN FALSE ELSE RLt(a, b)

\* the loop of d3.extent from the i-th value on; mm is <<>> while min is
\* still undefined and <<min, max>> after:
\*   if (value != null) {
\*     if (min === undefined) { if (value >= value) min = max = value; }
\*     else { if (min > value) min = value; if (max < value) max = value; } }
RECURSIVE ExtentLoop(_, _, _)
ExtentLoop(values, i, mm) ==
    IF i > Len(values) THEN mm
    ELSE IF values[i] = Undefined THEN ExtentLoop(values, i + 1, mm)
    ELSE IF mm = <<>>
    THEN ExtentLoop(values, i + 1,
                    IF IsString(values[i]) \/ ~IsNaN(values[i])
                    THEN <<values[i], values[i]>> ELSE mm)
    ELSE ExtentLoop(values, i + 1,
                    << IF JsLt(values[i], mm[1]) THEN values[i] ELSE mm[1],
                       IF JsLt(mm[2], values[i]) THEN values[i] ELSE mm[2] >>)

\* scale.domain(d): every bound converted to a number
ToNumber(v) == IF Len(v) = 3 THEN NaN ELSE v

\* d3.extent(dataset, accessor) over the accessed values: [min, max];
\* [undefined, undefined] when no value counts, which scale.domain() coerces
\* to [NaN, NaN]
ExtentOf(mm) == IF mm = <<>> THEN <<NaN, NaN>> ELSE <<ToNumber(mm[1]), ToNumber(mm[2])>>

Extent(values) == ExtentOf(ExtentLoop(values, 1, <<>>))

\* floor(log10(step)) for step > 0
Power(step) == CHOOSE k \in -4..4 : RLe(Pow10(k), step) /\ RLt(step, Pow10(k + 1))

\* d3.tickIncrement(start, stop, count) for start < stop: a positive step of
\* 1, 2 or 5 times a power of ten, or, below 1, the negated inverse of it
TickIncrement(start, stop, count) ==
    LET step == RDiv(RSub(stop, start), Num(count))
        power == Power(step)
        error == RDiv(step, Pow10(power))
        e2 == RMul(error, error)
        m == IF RLe(Num(50), e2) THEN 10
             ELSE IF RLe(Num(10), e2) THEN 5
             ELSE IF RLe(Num(2), e2) THEN 2 ELSE 1
    IN  IF power >= 0 THEN RMul(Num(m), Pow10(power))
        ELSE RDiv(RSub(Num(0), Pow10(-power)), Num(m))

RECURSIVE NiceLoop(_, _, _, _, _)

\* one round of nice()'s loop, given the step of this round
NiceStep(d, start, stop, prestep, maxIter, step) ==
    IF step = prestep THEN <<start, stop>>
    ELSE IF RLt(Num(0), step)
    THEN NiceLoop(d, RMul(Num(RFloor(RDiv(start, step))), step),
                     RMul(Num(RCeil(RDiv(stop, step))), step),
                     step, maxIter - 1)
    ELSE NiceLoop(d, RDiv(Num(RCeil(RMul(start, step))), step),
                     RDiv(Num(RFloor(RMul(stop, step))), step),
                     step, maxIter - 1)

NiceLoop(d, start, stop, prestep, maxIter) ==
    IF maxIter = 0 \/ ~RLt(start, stop) THEN d
    ELSE NiceStep(d, start, stop, prestep, maxIter, TickIncrement(start, stop, 10))

\* mutant: nice() is not called
Nice_Omitted(d) == d

\* scale.nice(): the domain extended to multiples of the tick step.  For a
\* NaN domain or one with start = stop the tick increment is NaN / -Infinity,
\* the loop breaks and the domain is left as it was.
Nice(d) == NiceLoop(d, d[1], d[2], NaN, 10)

\* the interpolation parameter of scaleLinear: (x - d0) / (d1 - d0), or the
\* constant 0.5 when d0 = d1
Normalize(d, x) ==
    IF IsNaN(d[1]) \/ IsNaN(d[2]) THEN NaN
    ELSE IF d[1] = d[2] THEN <<1, 2>>
    ELSE RDiv(RSub(x, d[1]), RSub(d[2], d[1]))

\* mutant: the scale has no "unknown" value
ScaleLinear_NoUnknown(d, r, x) ==
    LET t == Normalize(d, x)
    IN  RAdd(RMul(r[1], RSub(Num(1), t)), RMul(r[2], t))

\* d3.scaleLinear().domain(d).range(r) applied to x; for an x that is not a
\* number the scale returns its "unknown" value, undefined
ScaleLinear(d, r, x) ==
    IF IsNaN(x) THEN Undefined
    ELSE LET t == Normalize(d, x)
         IN  RAdd(RMul(r[1], RSub(Num(1), t)), RMul(r[2], t))

skyblue == <<135, 206, 235>>
darkslategrey == <<47, 79, 79>>

\* one channel of d3.interpolateRgb, as the rgb() string prints it
Channel(a, b, t) ==
    LET v == RAdd(Num(a), RMul(t, Num(b - a)))
    IN  IF IsNaN(v) THEN 0
        ELSE LET n == RRound(v) IN IF n < 0 THEN 0 ELSE IF n > 255 THEN 255 ELSE n

ColorLinear(d, r, x) ==
    LET t == Normalize(d, x)
    IN  <<Channel(r[1][1], r[2][1], t), Channel(r[1][2], r[2][2], t),
          Channel(r[1][3], r[2][3], t)>>

\* mutant: the colour scale's domain is niced like the position scales'
Scales_NicedColor(s, D, dim) ==
    [ xDomain |-> Nice(Extent(xValues(D))),
      xRange |-> <<Num(0), dim.boundedWidth>>,
      yDomain |-> Nice(Extent(yValues(D))),
      yRange |-> <<dim.boundedHeight, Num(0)>>,
      colorDomain |-> IF s = "part_000" THEN <<NaN, NaN>>
                      ELSE Nice(Extent(colorValues(D))),
      colorRange |-> <<skyblue, darkslategrey>> ]

\* mutant: the y range is not inverted
Scales_NotInverted(s, D, dim) ==
    [ xDomain |-> Nice(Extent(xValues(D))),
      xRange |-> <<Num(0), dim.boundedWidth>>,
      yDomain |-> Nice(Extent(yValues(D))),
      yRange |-> <<Num(0), dim.boundedHeight>>,
      colorDomain |-> IF s = "part_000" THEN <<NaN, NaN>> ELSE Extent(colorValues(D)),
      colorRange |-> <<skyblue, darkslategrey>> ]

Scales(s, D, dim) ==
    [ xDomain |-> Nice(Extent(xValues(D))),
      xRange |-> <<Num(0), dim.boundedWidth>>,
      yDomain |-> Nice(Extent(yValues(D))),
      yRange |-> <<dim.boundedHeight, Num(0)>>,
      colorDomain |-> IF s = "part_000" THEN <<NaN, NaN>> ELSE Extent(colorValues(D)),
      colorRange |-> <<skyblue, darkslategrey>> ]

NoScales ==
    [ xDomain |-> <<NaN, NaN>>, xRange |-> <<NaN, NaN>>,
      yDomain |-> <<NaN, NaN>>, yRange |-> <<NaN, NaN>>,
      colorDomain |-> <<NaN, NaN>>, colorRange |-> <<skyblue, darkslategrey>> ]

xScale(sc, x) == ScaleLinear(sc.xDomain, sc.xRange, x)
yScale(sc, y) == ScaleLinear(sc.yDomain, sc.yRange, y)
colorScale(sc, c) == ColorLinear(sc.colorDomain, sc.colorRange, c)

------------------------------------------------------------------------------
(* The svg tree: elements, selections and the data join *)

Absent == <<>>

Elem(id, tag) ==
    [ id |-> id, tag |-> tag, class |-> "", datum |-> Absent,
      cx |-> Absent, cy |-> Absent, r |-> Absent,
      width |-> Absent, height |-> Absent,
      fill |-> Absent, stroke |-> "", d |-> Absent,
      on |-> {}, pointerEvents |-> "auto" ]

\* selection.attr(name, value): a value of null or undefined removes the
\* attribute instead of setting it
Attr(v) == IF v = Undefined THEN Absent ELSE v

Ids(children) == {children[i].id : i \in 1..Len(children)}

\* node identity: the first n identities no live node of the group has
RECURSIVE FreshIds(_, _)
FreshIds(used, n) ==
    IF n = 0 THEN <<>>
    ELSE LET id == CHOOSE k \in 1..(Cardinality(used) + 1) :
                       k \notin used /\ \A j \in 1..(k - 1) : j \in used
         IN  <<id>> \o FreshIds(used \cup {id}, n - 1)

IsCircle(e) == e.tag = "circle"
IsVoronoi(e) == e.class = "voronoi"
IsTooltipDot(e) == e.class = "tooltipDot"

IdsOf(elems) == [k \in 1..Len(elems) |-> elems[k].id]

\* mutant: the selector matches no existing node
SelectCircles_None(children) == <<>>

\* bounds.selectAll("circle"): every circle child, in document order
SelectCircles(children) == IdsOf(SelectSeq(children, IsCircle))

\* bounds.selectAll(".voronoi")
SelectVoronoi(children) == IdsOf(SelectSeq(children, IsVoronoi))

Min2(a, b) == IF a <= b THEN a ELSE b

\* selection.data(D) without a key function binds by index: node k of the
\* selection gets D[k]
BindData(children, sel, D) ==
    [i \in 1..Len(children) |->
        IF \E k \in 1..Min2(Len(sel), Len(D)) : sel[k] = children[i].id
        THEN LET k == CHOOSE k \in 1..Min2(Len(sel), Len(D)) : sel[k] = children[i].id
             IN  [children[i] EXCEPT !.datum = <<D[k]>>]
        ELSE children[i]]

\* mutant: the enter selection misses its last datum
EnterIds_OneShort(children, sel, D) ==
    IF Len(D) > Len(sel) THEN FreshIds(Ids(children), Len(D) - Len(sel) - 1) ELSE <<>>

\* the ids the enter selection's nodes get when appended
EnterIds(children, sel, D) ==
    IF Len(D) > Len(sel) THEN FreshIds(Ids(children), Len(D) - Len(sel)) ELSE <<>>

\* enter().append(tag): one new node per datum without a node, appended at
\* the end of the parent (no later node of the selection to insert before)
EnterAppend(children, sel, D, tag) ==
    LET ids == EnterIds(children, sel, D)
    IN  children \o [k \in 1..Len(ids) |->
                        [Elem(ids[k], tag) EXCEPT !.datum = <<D[Len(sel) + k]>>]]

\* mutant: the surplus nodes are taken from the front of the selection
ExitRemove_Front(children, sel, D) ==
    LET gone == {sel[k] : k \in 1..(Len(sel) - Len(D))}
    IN  SelectSeq(children, LAMBDA e : e.id \notin gone)

\* exit().remove(): the nodes of the selection beyond the data are removed
ExitRemove(children, sel, D) ==
    LET gone == {sel[k] : k \in (Len(D) + 1)..Len(sel)}
    IN  SelectSeq(children, LAMBDA e : e.id \notin gone)

\* the merged enter + update selection, in data order
Merged(children, sel, D) ==
    SubSeq(sel, 1, Min2(Len(sel), Len(D))) \o EnterIds(children, sel, D)

\* selection.data(D).join(tag)
Join(children, sel, D, tag) ==
    ExitRemove(EnterAppend(BindData(children, sel, D), sel, D, tag), sel, D)

\* the index of a node in a selection
IndexIn(ids, id) == CHOOSE k \in 1..Len(ids) : ids[k] = id

------------------------------------------------------------------------------
(* Step 5: draw data *)

\* mutant: cx is computed from the y accessor
DotAttrs_WrongAccessor(sc, e) ==
    [e EXCEPT !.cx = Attr(xScale(sc, yAccessor(e.datum[1]))),
              !.cy = Attr(yScale(sc, yAccessor(e.datum[1]))),
              !.r = Num(5),
              !.fill = colorScale(sc, colorAccessor(e.datum[1]))]

\* .attr("cx", ...).attr("cy", ...).attr("r", 5).attr("fill", ...)
DotAttrs(sc, e) ==
    [e EXCEPT !.cx = Attr(xScale(sc, xAccessor(e.datum[1]))),
              !.cy = Attr(yScale(sc, yAccessor(e.datum[1]))),
              !.r = Num(5),
              !.fill = colorScale(sc, colorAccessor(e.datum[1]))]

\* part_000: selectAll("circle").data(dataset).enter().append("circle")
EnterDots(children, D) ==
    LET sel == SelectCircles(children)
    IN  EnterAppend(BindData(children, sel, D), sel, D, "circle")

\* part_001/004/005: selectAll("circle").data(dataset).join("circle") and
\* the attribute setters
JoinDots(sc, children, D) ==
    LET sel == SelectCircles(children)
        ids == Merged(children, sel, D)
        joined == Join(children, sel, D, "circle")
    IN  [i \in 1..Len(joined) |->
            IF joined[i].id \in SeqRange(ids) THEN DotAttrs(sc, joined[i])
            ELSE joined[i]]

DrawDots(s, sc, children, D) ==
    IF s = "part_000" THEN EnterDots(children, D) ELSE JoinDots(sc, children, D)

------------------------------------------------------------------------------
(* Voronoi cells over the dots' positions *)

Points(sc, D) ==
    [i \in 1..Len(D) |-> <<ToNumber(xScale(sc, xAccessor(D[i]))),
                           ToNumber(yScale(sc, yAccessor(D[i])))>>]

\* of several coincident points the triangulation keeps one; which one is
\* the library's choice, and so is what it makes of a point with a NaN
\* coordinate
KeptSets(points) ==
    {K \in SUBSET (1..Len(points)) :
        \A i \in 1..Len(points) :
            \/ IsNaN(points[i][1]) \/ IsNaN(points[i][2])
            \/ Cardinality({j \in K : points[j] = points[i]}) = 1}

\* d3.Delaunay.from(dataset, d => xScale(xAccessor(d)), d => yScale(yAccessor(d)))
DelaunayFrom(sc, D, kept) == [points |-> Points(sc, D), kept |-> kept]

\* delaunay.voronoi(): clipped to the default bounds [0, 0, 960, 500]
VoronoiOf(delaunay) ==
    [ points |-> delaunay.points, kept |-> delaunay.kept,
      xmin |-> Num(0), ymin |-> Num(0), xmax |-> Num(960), ymax |-> Num(500) ]

\* mutant: the clip box is left at the library's default
SetVoronoiBounds_Default(v, dim) == v

\* voronoi.xmax = dimensions.boundedWidth; voronoi.ymax = dimensions.boundedHeight
SetVoronoiBounds(v, dim) ==
    [v EXCEPT !.xmax = dim.boundedWidth, !.ymax = dim.boundedHeight]

\* mutant: the index is off by one
RenderCell_Next(v, i) ==
    IF (i + 1) \in v.kept
    THEN <<[site |-> i + 1, points |-> v.points,
            box |-> <<v.xmin, v.ymin, v.xmax, v.ymax>>]>>
    ELSE Absent

\* voronoi.renderCell(i): the cell of point i, null for a coincident point
\* that the triangulation dropped
RenderCell(v, i) ==
    IF i \in v.kept
    THEN <<[site |-> i, points |-> v.points,
            box |-> <<v.xmin, v.ymin, v.xmax, v.ymax>>]>>
    ELSE Absent

Dist2(p, q) ==
    LET dx == RSub(p[1], q[1])
        dy == RSub(p[2], q[2])
    IN  RAdd(RMul(dx, dx), RMul(dy, dy))

InBox(box, p) ==
    /\ RLe(box[1], p[1]) /\ RLe(p[1], box[3])
    /\ RLe(box[2], p[2]) /\ RLe(p[2], box[4])

\* the location p lies in the rendered cell: inside the clip box and at least
\* as close to the cell's site as to any other point
CellContains(cell, p) ==
    /\ InBox(cell.box, p)
    /\ \A j \in 1..Len(cell.points) :
           RLe(Dist2(p, cell.points[cell.site]), Dist2(p, cell.points[j]))

transparent == <<0, 0, 0, 0>>
maroon == <<128, 0, 0>>
eeeeee == <<238, 238, 238>>

HoverEvents == {"mouseenter", "mouseleave"}

\* .attr("class", "voronoi").attr("d", (d, i) => voronoi.renderCell(i))
\* .attr("stroke", "salmon").attr("fill", "transparent"), and in part_001 and
\* part_004 .on("mouseenter", ...).on("mouseleave", ...) in the same chain
CellAttrs(s, v, e, k) ==
    [e EXCEPT !.class = "voronoi",
              !.d = RenderCell(v, k),
              !.stroke = "salmon",
              !.fill = transparent,
              !.on = IF s \in {"part_001", "part_004"} THEN HoverEvents ELSE @]

\* bounds.selectAll(".voronoi").data(dataset).join("path") and its setters
DrawVoronoi(s, v, children, D) ==
    LET sel == SelectVoronoi(children)
        ids == Merged(children, sel, D)
        joined == Join(children, sel, D, "path")
    IN  [i \in 1..Len(joined) |->
            IF joined[i].id \in SeqRange(ids)
            THEN CellAttrs(s, v, joined[i], IndexIn(ids, joined[i].id))
            ELSE joined[i]]

\* part_005: bounds.selectAll(".voronoi").on("mouseenter", ...).on("mouseleave", ...)
ListenVoronoi(children) ==
    [i \in 1..Len(children) |->
        IF IsVoronoi(children[i]) THEN [children[i] EXCEPT !.on = HoverEvents]
        ELSE children[i]]

NewId(children) == FreshIds(Ids(children), 1)[1]

\* bounds.append("g").call(axisGenerator), twice: the x axis and the y axis
DrawAxes(children) ==
    LET x == Append(children, [Elem(NewId(children), "g") EXCEPT !.class = "x-axis"])
    IN  Append(x, [Elem(NewId(x), "g") EXCEPT !.class = "y-axis"])

\* part_004: the grey background rect over the bounded area
DrawBackground(children, dim) ==
    Append(children, [Elem(NewId(children), "rect") EXCEPT
                          !.width = dim.boundedWidth,
                          !.height = dim.boundedHeight,
                          !.fill = eeeeee])

\* everything drawScatter appends to the bounds group, in source order
RenderBounds(s, sc, dim, D, kept) ==
    LET v == SetVoronoiBounds(VoronoiOf(DelaunayFrom(sc, D, kept)), dim)
    IN  CASE s = "part_000" -> DrawDots(s, sc, <<>>, D)
          [] s = "part_001" -> DrawAxes(DrawVoronoi(s, v, DrawDots(s, sc, <<>>, D), D))
          [] s = "part_004" ->
                DrawVoronoi(s, v, DrawAxes(DrawDots(s, sc, DrawBackground(<<>>, dim), D)), D)
          [] s = "part_005" ->
                ListenVoronoi(DrawAxes(DrawVoronoi(s, v, DrawDots(s, sc, <<>>, D), D)))

\* d3.select("#wrapper").append("svg") with its size, and the bounds group's
\* translate(margin.left, margin.top)
RenderSvg(dim) ==
    <<[ tag |-> "svg", width |-> dim.width, height |-> dim.height,
        boundsTransform |-> <<dim.margin.left, dim.margin.top>> ]>>

------------------------------------------------------------------------------
(* Step 7: interactions *)

\* the tooltip's opacity before any handler ran: the stylesheet's
\* "opacity: 0" is commented out, so the initial value applies
InitialOpacity == 1

TooltipInit ==
    [ opacity |-> InitialOpacity, humidity |-> Absent, dewPoint |-> Absent,
      date |-> Absent, cover |-> Absent, transform |-> Absent ]

\* d3.format(".2f"): <<sign, integer part, two decimals>> of the value
\* rounded to hundredths; "NaN" is <<0, 0, 0>>
Format2f(x) ==
    IF IsNaN(x) THEN <<0, 0, 0>>
    ELSE LET h == RRound(RMul(<<Abs(x[1]), x[2]>>, Num(100)))
         IN  <<IF x[1] < 0 /\ h > 0 THEN -1 ELSE 1, h \div 100, h % 100>>

\* day of the week of a calendar date, 0 = Sunday
Weekday(y, m, d) ==
    LET t == <<0, 3, 2, 5, 0, 3, 5, 1, 4, 6, 2, 4>>
        yy == IF m < 3 THEN y - 1 ELSE y
    IN  (yy + (yy \div 4) - (yy \div 100) + (yy \div 400) + t[m] + d) % 7

\* d3.timeFormat("%B %A %-d, %Y")(d3.timeParse("%Y-%m-%d")(date)):
\* <<month name, weekday name, day, year>>, names by their number
FormatDate(date) == <<date[2], Weekday(date[1], date[2], date[3]), date[3], date[1]>>

\* mutant: the two text fields are filled from each other's accessor
EnterTooltip_Swapped(s, sc, dim, tt, d) ==
    [tt EXCEPT
        !.opacity = 1,
        !.humidity = Format2f(xAccessor(d)),
        !.dewPoint = Format2f(yAccessor(d)),
        !.date = FormatDate(d.date),
        !.cover = IF s = "part_001" THEN RMul(colorAccessor(d), Num(100)) ELSE @,
        !.transform = <<RAdd(xScale(sc, xAccessor(d)), Num(dim.margin.left)),
                        RAdd(yScale(sc, yAccessor(d)), Num(dim.margin.top))>>]

\* mutant: the tooltip is translated in the bounds group's coordinates
EnterTooltip_NoMargin(s, sc, dim, tt, d) ==
    [tt EXCEPT
        !.opacity = 1,
        !.humidity = Format2f(yAccessor(d)),
        !.dewPoint = Format2f(xAccessor(d)),
        !.date = FormatDate(d.date),
        !.cover = IF s = "part_001" THEN RMul(colorAccessor(d), Num(100)) ELSE @,
        !.transform = <<xScale(sc, xAccessor(d)), yScale(sc, yAccessor(d))>>]

\* what onMouseEnter(event, d) leaves in the tooltip
EnterTooltip(s, sc, dim, tt, d) ==
    [tt EXCEPT
        !.opacity = 1,
        !.humidity = Format2f(yAccessor(d)),
        !.dewPoint = Format2f(xAccessor(d)),
        !.date = FormatDate(d.date),
        !.cover = IF s = "part_001" THEN RMul(colorAccessor(d), Num(100)) ELSE @,
        !.transform = <<RAdd(xScale(sc, xAccessor(d)), Num(dim.margin.left)),
                        RAdd(yScale(sc, yAccessor(d)), Num(dim.margin.top))>>]

\* mutant: the highlight circle takes pointer events like any circle
TooltipDot_Hittable(sc, id, d) ==
    [Elem(id, "circle") EXCEPT
        !.class = "tooltipDot",
        !.cx = Attr(xScale(sc, xAccessor(d))),
        !.cy = Attr(yScale(sc, yAccessor(d))),
        !.r = Num(7),
        !.fill = maroon]

\* the highlight circle onMouseEnter appends to the bounds group
TooltipDot(sc, id, d) ==
    [Elem(id, "circle") EXCEPT
        !.class = "tooltipDot",
        !.cx = Attr(xScale(sc, xAccessor(d))),
        !.cy = Attr(yScale(sc, yAccessor(d))),
        !.r = Num(7),
        !.fill = maroon,
        !.pointerEvents = "none"]

\* what onMouseEnter(event, d) leaves in the bounds group
EnterBounds(s, sc, children, d) ==
    IF s \in {"part_004", "part_005"}
    THEN Append(children, TooltipDot(sc, NewId(children), d))
    ELSE children

\* what onMouseLeave() leaves in the tooltip
LeaveTooltip(s, tt) ==
    IF s \in {"part_001", "part_005"} THEN [tt EXCEPT !.opacity = 0] ELSE tt

\* mutant: the selector of onMouseLeave matches every circle
LeaveBounds_Circles(s, children) ==
    IF s \in {"part_004", "part_005"}
    THEN SelectSeq(children, LAMBDA e : ~IsCircle(e))
    ELSE children

\* mutant: only the highlight circle appended last is removed
LeaveBounds_LastOnly(s, children) ==
    IF s \in {"part_004", "part_005"} /\ \E i \in 1..Len(children) : IsTooltipDot(children[i])
    THEN LET last == CHOOSE i \in 1..Len(children) :
                        /\ IsTooltipDot(children[i])
                        /\ \A j \in (i + 1)..Len(children) : ~IsTooltipDot(children[j])
         IN  SubSeq(children, 1, last - 1) \o SubSeq(children, last + 1, Len(children))
    ELSE children

\* what onMouseLeave() leaves in the bounds group:
\* d3.selectAll(".tooltipDot").remove()
LeaveBounds(s, children) ==
    IF s \in {"part_004", "part_005"}
    THEN SelectSeq(children, LAMBDA e : ~IsTooltipDot(e))
    ELSE children

Dots(children) == SelectSeq(children, IsTooltipDot)

\* the elements a pointer can enter or leave: a listener is registered and
\* the element has a shape
Hoverable(e, type) == type \in e.on /\ e.d # Absent

\* the primary marks: the circles the draw step made (not the highlight)
IsMark(e) == IsCircle(e) /\ ~IsTooltipDot(e)
Marks(children) == SelectSeq(children, IsMark)

\* the record bound to each primary mark, in document order
BoundData(children) ==
    LET m == Marks(children) IN [k \in 1..Len(m) |-> m[k].datum[1]]

\* D without its k-th record
RemoveAt(D, k) == SubSeq(D, 1, k - 1) \o SubSeq(D, k + 1, Len(D))

\* history of the last operation: its kind; for a mouseenter the element it
\* was dispatched to, that element's datum (the d the handler receives) and
\* its index among the cells; for a hover event the number of highlight
\* circles before it; for a redraw the array drawn, whether it equals the
\* records bound before, and the indices whose removal from them gives it
NoEvent ==
    [ type |-> "none", target |-> 0, datum |-> Absent, index |-> 0, dots |-> 0,
      data |-> <<>>, same |-> FALSE, removed |-> {} ]

EnterEvent(children, e) ==
    [ NoEvent EXCEPT !.type = "mouseenter", !.target = e.id, !.datum = e.datum,
                     !.index = IndexIn(SelectVoronoi(children), e.id),
                     !.dots = Len(Dots(children)) ]

LeaveEvent(children) ==
    [ NoEvent EXCEPT !.type = "mouseleave", !.dots = Len(Dots(children)) ]

RedrawEvent(children, D) ==
    LET before == BoundData(children)
    IN  [ NoEvent EXCEPT !.type = "redraw", !.data = D,
                         !.same = (D = before),
                         !.removed = {k \in 1..Len(before) : D = RemoveAt(before, k)} ]

------------------------------------------------------------------------------
(* The state machine *)

\* no second call of drawScatter() has been made
NoInvocation == [pc |-> "none", dataset |-> <<>>, bounds |-> <<>>]

\* what d3.json can resolve with: both invocations fetch the same file, so
\* once one of them has its content the other gets the same
Responses(seen) == IF seen.pc = "rendered" THEN {seen.dataset} ELSE Datasets

Init ==
    /\ script \in Scripts
    /\ window \in Windows
    /\ pc = "fetching"
    /\ dataset = <<>>
    /\ dimensions = NoDimensions
    /\ scales = NoScales
    /\ svg = <<>>
    /\ bounds = <<>>
    /\ tooltip = TooltipInit
    /\ other = NoInvocation
    /\ event = NoEvent

\* the statements of drawScatter after the await, with D the fetched array
DrawScatter(D) ==
    /\ dataset' = D
    /\ dimensions' = Dimensions(script, window)
    /\ scales' = Scales(script, D, dimensions')
    /\ svg' = svg \o RenderSvg(dimensions')
    /\ \E kept \in KeptSets(Points(scales', D)) :
          bounds' = RenderBounds(script, scales', dimensions', D, kept)
    /\ pc' = "rendered"
    /\ event' = [NoEvent EXCEPT !.type = "render"]
    /\ UNCHANGED <<script, window, other, tooltip>>

\* await d3.json(...) resolves with D: the rest of drawScatter runs to its end
FetchResolve ==
    /\ pc = "fetching"
    /\ script \in Scripts
    /\ \E D \in Responses(other) : DrawScatter(D)

\* mutant: the failure is handled locally by appending a message to the container
FetchReject_Handled ==
    /\ pc = "fetching"
    /\ pc' = "rejected"
    /\ svg' = Append(svg, [tag |-> "text", width |-> NaN, height |-> NaN,
                           boundsTransform |-> <<0, 0>>])
    /\ event' = [NoEvent EXCEPT !.type = "reject"]
    /\ UNCHANGED <<script, window, other, dataset, dimensions, scales, bounds, tooltip>>

\* await d3.json(...) rejects: drawScatter's promise rejects, nothing else runs
FetchReject ==
    /\ pc = "fetching"
    /\ pc' = "rejected"
    /\ event' = [NoEvent EXCEPT !.type = "reject"]
    /\ UNCHANGED <<script, window, other, dataset, dimensions, scales, svg, bounds, tooltip>>

\* the browser dispatches mouseenter to a listening element: onMouseEnter(event, d)
MouseEnter ==
    /\ pc = "rendered"
    /\ Len(Dots(bounds)) < MaxDots
    /\ \E i \in 1..Len(bounds) :
         /\ Hoverable(bounds[i], "mouseenter")
         /\ bounds' = EnterBounds(script, scales, bounds, bounds[i].datum[1])
         /\ tooltip' = EnterTooltip(script, scales, dimensions, tooltip, bounds[i].datum[1])
         /\ event' = EnterEvent(bounds, bounds[i])
    /\ UNCHANGED <<script, window, other, pc, dataset, dimensions, scales, svg>>

\* the browser dispatches mouseleave to a listening element: onMouseLeave()
MouseLeave ==
    /\ pc = "rendered"
    /\ \E i \in 1..Len(bounds) :
         /\ Hoverable(bounds[i], "mouseleave")
         /\ bounds' = LeaveBounds(script, bounds)
         /\ tooltip' = LeaveTooltip(script, tooltip)
         /\ event' = LeaveEvent(bounds)
    /\ UNCHANGED <<script, window, other, pc, dataset, dimensions, scales, svg>>

Next == FetchResolve \/ FetchReject \/ MouseEnter \/ MouseLeave

Spec == Init /\ [][Next]_vars

------------------------------------------------------------------------------
(* The draw step run again on the same bounds group, as the README's        *)
(* drawDots(dataset.slice(0, 100)) then drawDots(dataset) does: the scales   *)
(* stay those of the fetched dataset, the array drawn is a sub-array of it.  *)

\* the records of D at the indices in S, in order
RECURSIVE Pick(_, _)
Pick(D, S) ==
    IF S = {} THEN <<>>
    ELSE LET i == CHOOSE i \in S : \A j \in S : i <= j
         IN  <<D[i]>> \o Pick(D, S \ {i})

SubArrays(D) == {Pick(D, S) : S \in SUBSET (1..Len(D))}

Redraw ==
    /\ pc = "rendered"
    /\ Len(dataset) <= MaxRedrawLen
    /\ \E D \in SubArrays(dataset) :
         /\ bounds' = DrawDots(script, scales, bounds, D)
         /\ event' = RedrawEvent(bounds, D)
    /\ UNCHANGED <<script, window, other, pc, dataset, dimensions, scales, svg, tooltip>>

NextJoin == FetchResolve \/ FetchReject \/ Redraw

SpecJoin == Init /\ [][NextJoin]_vars

------------------------------------------------------------------------------
(* The line chart and the area chart (drawLineChart)                        *)

ChartScripts == {"20-line-chart", "21-area-chart"}

\* var margin, width, height: computed when the script loads, before
\* drawLineChart is called
LineMargin == [top |-> 10, right |-> 20, bottom |-> 30, left |-> 30]

LineDimensions(s) ==
    [ margin |-> LineMargin,
      width |-> Num(800 - LineMargin.left - LineMargin.right),
      height |-> Num((IF s = "20-line-chart" THEN 500 ELSE 565)
                       - LineMargin.top - LineMargin.bottom) ]

MaxValues == 2   \* most values of one company

\* a value of a company as fetched: date is a "%Y/%m/%d" string (its three
\* numbers), close a number or a numeric string
RawValue(dt, kind, q) == [date |-> [string |-> dt], close |-> [kind |-> kind, value |-> q]]

RawValues ==
    { RawValue(<<2020, 1, 1>>, "string", Num(10)),
      RawValue(<<2020, 1, 31>>, "number", Num(30)),
      RawValue(<<2020, 3, 1>>, "string", <<41, 2>>) }

Companies == { [values |-> v] : v \in SeqsUpTo(RawValues, MaxValues) }

\* the stroke colours, one per company
Strokes == <<"#FF9900", "#3369E8">>

ChartDatasets == SeqsUpTo(Companies, Len(Strokes))

\* the day number of a calendar date (days since 1970-01-01)
DaysFromCivil(y, m, d) ==
    LET yy == IF m <= 2 THEN y - 1 ELSE y
        era == yy \div 400
        yoe == yy - era * 400
        doy == ((153 * ((m + 9) % 12) + 2) \div 5) + d - 1
        doe == yoe * 365 + (yoe \div 4) - (yoe \div 100) + doy
    IN  era * 146097 + doe - 719468

\* d3.timeParse("%Y/%m/%d"): a Date, as its day number
parseTime(date) ==
    [time |-> Num(DaysFromCivil(date.string[1], date.string[2], date.string[3]))]

\* d.date = parseTime(d.date); d.close = +d.close;
ParseValue(d) == [date |-> parseTime(d.date), close |-> d.close.value]

\* dataset.forEach(company => company.values.forEach(...)): the records of
\* the fetched array after the loop has rewritten them in place
ParseDataset(D) ==
    [c \in 1..Len(D) |->
        [values |-> [k \in 1..Len(D[c].values) |-> ParseValue(D[c].values[k])]]]

RECURSIVE AllValues(_)
AllValues(D) == IF D = <<>> THEN <<>> ELSE Head(D).values \o AllValues(Tail(D))

dateValues(D) == [k \in 1..Len(AllValues(D)) |-> AllValues(D)[k].date.time]
closeValues(D) == [k \in 1..Len(AllValues(D)) |-> AllValues(D)[k].close]

\* xScale (scaleTime over the dates) and yScale (scaleLinear over close,
\* niced in the line chart only)
ChartScales(s, D, dim) ==
    [ xDomain |-> Extent(dateValues(D)),
      xRange |-> <<Num(0), dim.width>>,
      yDomain |-> IF s = "20-line-chart" THEN Nice(Extent(closeValues(D)))
                  ELSE Extent(closeValues(D)),
      yRange |-> <<dim.height, Num(0)>>,
      colorDomain |-> <<NaN, NaN>>,
      colorRange |-> <<skyblue, darkslategrey>> ]

\* d3.select(".chart").append("svg") sized width + margins, and its <g>
ChartSvg(dim) ==
    <<[ tag |-> "svg",
        width |-> RAdd(RAdd(dim.width, Num(dim.margin.left)), Num(dim.margin.right)),
        height |-> RAdd(RAdd(dim.height, Num(dim.margin.top)), Num(dim.margin.bottom)),
        boundsTransform |-> <<dim.margin.left, dim.margin.top>> ]>>

\* line(d.values) / area(d.values): the points the curve passes through,
\* null for no values
PathData(s, sc, values) ==
    IF values = <<>> THEN Absent
    ELSE <<[ points |-> [k \in 1..Len(values) |->
                            <<xScale(sc, values[k].date.time),
                              yScale(sc, values[k].close)>>],
             y0 |-> IF s = "21-area-chart" THEN <<yScale(sc, sc.yDomain[1])>>
                    ELSE Absent ]>>

SelectPaths(s, children) ==
    IdsOf(SelectSeq(children,
                    LAMBDA e : e.class = (IF s = "20-line-chart" THEN "line" ELSE "area")))

\* svg.selectAll(".line").data(dataset).enter().append("path") in the line
\* chart, .join("path") in the area chart, and the attribute setters
DrawPaths(s, sc, children, D) ==
    LET sel == SelectPaths(s, children)
        ids == IF s = "20-line-chart" THEN EnterIds(children, sel, D)
               ELSE Merged(children, sel, D)
        drawn == IF s = "20-line-chart"
                 THEN EnterAppend(BindData(children, sel, D), sel, D, "path")
                 ELSE Join(children, sel, D, "path")
    IN  [i \in 1..Len(drawn) |->
            IF drawn[i].id \in SeqRange(ids)
            THEN LET k == IndexIn(ids, drawn[i].id)
                         + (IF s = "20-line-chart" THEN Len(sel) ELSE 0)
                     colour == IF k <= Len(Strokes) THEN Strokes[k] ELSE ""
                 IN  [drawn[i] EXCEPT
                         !.class = IF s = "20-line-chart" THEN "line" ELSE "area",
                         !.d = PathData(s, sc, drawn[i].datum[1].values),
                         !.stroke = colour,
                         !.fill = IF s = "20-line-chart" THEN "none" ELSE colour]
            ELSE drawn[i]]

------------------------------------------------------------------------------
(* Any of the six scripts loaded in a browser window of any size *)

AllScripts == Scripts \cup ChartScripts

Viewports ==
    { [innerWidth |-> 800, innerHeight |-> 600],
      [innerWidth |-> 500, innerHeight |-> 700],
      [innerWidth |-> 100, innerHeight |-> 60] }

\* the statements of a script in the order they run, by the stage they
\* belong to ("fetch" is where the function is suspended)
Stages(s) ==
    CASE s = "part_000" -> <<"fetch", "dimensions", "canvas", "scales", "marks">>
      [] s = "part_001" -> <<"fetch", "dimensions", "canvas", "scales", "marks",
                             "interactions", "axes", "interactions">>
      [] s = "part_004" -> <<"fetch", "dimensions", "canvas", "scales", "marks",
                             "axes", "interactions">>
      [] s = "part_005" -> <<"fetch", "dimensions", "canvas", "scales", "marks",
                             "axes", "interactions">>
      [] s \in ChartScripts -> <<"dimensions", "fetch", "canvas", "scales", "axes",
                                 "scales", "axes", "marks">>

\* mutant: the canvas is appended before the fetch is awaited
InitPage_CanvasFirst ==
    /\ script \in AllScripts
    /\ window \in Viewports
    /\ pc = "fetching"
    /\ dataset = <<>>
    /\ dimensions = IF script \in ChartScripts THEN LineDimensions(script)
                    ELSE NoDimensions
    /\ scales = NoScales
    /\ svg = IF script \in ChartScripts THEN ChartSvg(LineDimensions(script))
             ELSE RenderSvg(Dimensions(script, window))
    /\ bounds = <<>>
    /\ tooltip = TooltipInit
    /\ other = NoInvocation
    /\ event = NoEvent

InitPage ==
    /\ script \in AllScripts
    /\ window \in Viewports
    /\ pc = "fetching"
    /\ dataset = <<>>
    /\ dimensions = IF script \in ChartScripts THEN LineDimensions(script)
                    ELSE NoDimensions
    /\ scales = NoScales
    /\ svg = <<>>
    /\ bounds = <<>>
    /\ tooltip = TooltipInit
    /\ other = NoInvocation
    /\ event = NoEvent

\* await d3.json("./data.json") resolves: the rest of drawLineChart runs
ChartResolve ==
    /\ pc = "fetching"
    /\ script \in ChartScripts
    /\ \E raw \in ChartDatasets :
         /\ dataset' = ParseDataset(raw)
         /\ scales' = ChartScales(script, dataset', dimensions)
         /\ svg' = svg \o ChartSvg(dimensions)
         /\ bounds' = DrawPaths(script, scales', DrawAxes(<<>>), dataset')
         /\ event' = [NoEvent EXCEPT !.type = "render", !.data = raw]
    /\ pc' = "rendered"
    /\ UNCHANGED <<script, window, other, dimensions, tooltip>>

NextPage == FetchResolve \/ FetchReject \/ ChartResolve

SpecPage == InitPage /\ [][NextPage]_vars

------------------------------------------------------------------------------
(* drawScatter() called a second time on the same page: each invocation     *)
(* awaits its own fetch, appends its own svg to #wrapper and draws into its *)
(* own bounds group.                                                        *)

InvokeAgain ==
    /\ script \in Scripts
    /\ other.pc = "none"
    /\ other' = [other EXCEPT !.pc = "fetching"]
    /\ event' = [NoEvent EXCEPT !.type = "invoke", !.target = 2]
    /\ UNCHANGED <<script, window, pc, dataset, dimensions, scales, svg, bounds, tooltip>>

\* mutant: the second invocation empties the container before it draws
OtherResolve_Replaces ==
    /\ other.pc = "fetching"
    /\ \E D \in Responses([pc |-> pc, dataset |-> dataset]) :
         \E dim \in {Dimensions(script, window)} :
           \E sc \in {Scales(script, D, dim)} :
             \E kept \in KeptSets(Points(sc, D)) :
               /\ other' = [pc |-> "rendered", dataset |-> D,
                            bounds |-> RenderBounds(script, sc, dim, D, kept)]
               /\ svg' = RenderSvg(dim)
    /\ event' = [NoEvent EXCEPT !.type = "render", !.target = 2]
    /\ UNCHANGED <<script, window, pc, dataset, dimensions, scales, bounds, tooltip>>

\* the second invocation's await d3.json(...) resolves: the rest of its
\* drawScatter runs to its end
OtherResolve ==
    /\ other.pc = "fetching"
    /\ \E D \in Responses([pc |-> pc, dataset |-> dataset]) :
         \E dim \in {Dimensions(script, window)} :
           \E sc \in {Scales(script, D, dim)} :
             \E kept \in KeptSets(Points(sc, D)) :
               /\ other' = [pc |-> "rendered", dataset |-> D,
                            bounds |-> RenderBounds(script, sc, dim, D, kept)]
               /\ svg' = svg \o RenderSvg(dim)
    /\ event' = [NoEvent EXCEPT !.type = "render", !.target = 2]
    /\ UNCHANGED <<script, window, pc, dataset, dimensions, scales, bounds, tooltip>>

OtherReject ==
    /\ other.pc = "fetching"
    /\ other' = [other EXCEPT !.pc = "rejected"]
    /\ event' = [NoEvent EXCEPT !.type = "reject", !.target = 2]
    /\ UNCHANGED <<script, window, pc, dataset, dimensions, scales, svg, bounds, tooltip>>

NextRace == FetchResolve \/ FetchReject \/ InvokeAgain \/ OtherResolve \/ OtherReject

SpecRace == Init /\ [][NextRace]_vars

------------------------------------------------------------------------------
(* The construction of a position scale on its own:                         *)
(* d3.scaleLinear().domain(extent) and then .nice()                         *)

NiceN == 4   \* the raw extents' bounds reach from -NiceN / 2 to NiceN / 2

\* the bounds of raw extents: the README's values and a grid of halves
NiceValues ==
    { <<59, 5>>, <<3863, 50>>, <<27, 100>>, <<97, 100>> }
        \cup { Rat(k, 2) : k \in (-NiceN)..NiceN }

\* what d3.extent can return: [min, max] with min <= max, or no values
RawExtents ==
    { e \in NiceValues \X NiceValues : RLe(e[1], e[2]) }
        \cup { <<NaN, NaN>> }

InitNice ==
    /\ script = "part_005"
    /\ window \in Windows
    /\ pc = "scales"
    /\ dataset = <<>>
    /\ dimensions = NoDimensions
    /\ \E e \in RawExtents : scales = [NoScales EXCEPT !.xDomain = e]
    /\ svg = <<>>
    /\ bounds = <<>>
    /\ tooltip = TooltipInit
    /\ other = NoInvocation
    /\ event = NoEvent

\* .nice() on the scale whose domain is the raw extent
NiceDomain ==
    /\ pc = "scales"
    /\ event.type = "none"
    /\ scales' = [scales EXCEPT !.xDomain = Nice(@)]
    /\ event' = [NoEvent EXCEPT !.type = "nice", !.data = scales.xDomain]
    /\ UNCHANGED <<script, window, other, pc, dataset, dimensions, svg, bounds, tooltip>>

NextNice == NiceDomain

SpecNice == InitNice /\ [][NextNice]_vars

------------------------------------------------------------------------------
(* A data file some of whose records lack a plotted field or hold a string  *)
(* that is not a number in it                                                *)

DirtyRecords ==
    { Rec(Num(40), <<1, 2>>, <<27, 100>>, <<2019, 1, 1>>),
      Rec(Num(60), <<4, 5>>, <<9, 10>>, <<2019, 6, 1>>),
      Rec(Undefined, <<3, 5>>, <<1, 2>>, <<2019, 3, 15>>),
      Rec(NonNumeric, <<3, 5>>, <<1, 2>>, <<2019, 3, 16>>),
      Rec(Num(50), Undefined, <<1, 2>>, <<2019, 3, 17>>) }

DirtyDatasets == SeqsUpTo(DirtyRecords, MaxLen)

\* await d3.json(...) resolves with the content of such a file
DirtyResolve ==
    /\ pc = "fetching"
    /\ script \in Scripts
    /\ \E D \in DirtyDatasets : DrawScatter(D)

NextDirty == DirtyResolve \/ FetchReject

SpecDirty == Init /\ [][NextDirty]_vars

------------------------------------------------------------------------------
(* The scales and the marks as functions of the dataset and of the size of  *)
(* the bounded area                                                          *)

ExampleRecords ==
    { Rec(Num(40), <<1, 2>>, <<1, 5>>, <<2019, 1, 1>>),
      Rec(Num(60), <<4, 5>>, <<9, 10>>, <<2019, 1, 2>>),
      Rec(Num(45), <<7, 10>>, <<3, 10>>, <<2019, 1, 3>>) }

ExampleDatasets == SeqsUpTo(ExampleRecords, MaxLen)

\* the sides of the square bounded areas tried
BoundedSides == {250, 500}

\* the dimensions whose bounded area is a square of the given side
DimensionsOfSide(s, side) ==
    [ width |-> Num(side + Margin(s).left + Margin(s).right),
      height |-> Num(side + Margin(s).top + Margin(s).bottom),
      margin |-> Margin(s),
      boundedWidth |-> Num(side),
      boundedHeight |-> Num(side) ]

InitMarks ==
    /\ script \in Scripts
    /\ window \in Windows
    /\ pc = "scales"
    /\ dataset \in ExampleDatasets
    /\ \E side \in BoundedSides : dimensions = DimensionsOfSide(script, side)
    /\ scales = NoScales
    /\ svg = <<>>
    /\ bounds = <<>>
    /\ tooltip = TooltipInit
    /\ other = NoInvocation
    /\ event = NoEvent

\* steps 4 and 5 of drawScatter: the scales are built and the dots drawn
ScaleAndDraw ==
    /\ pc = "scales"
    /\ scales' = Scales(script, dataset, dimensions)
    /\ bounds' = DrawDots(script, scales', <<>>, dataset)
    /\ pc' = "marks"
    /\ event' = [NoEvent EXCEPT !.type = "draw"]
    /\ UNCHANGED <<script, window, other, dataset, dimensions, svg, tooltip>>

NextMarks == ScaleAndDraw

SpecMarks == InitMarks /\ [][NextMarks]_vars

------------------------------------------------------------------------------
(* The README's drawDots(dataset, color): an enter-only draw, called for a   *)
(* slice of the dataset and, from a timer, for the whole dataset             *)

gray == <<128, 128, 128>>
cornflowerblue == <<100, 149, 237>>

\* mutant: the setters run on the merged selection (update and enter)
drawDots_Merged(sc, children, D, color) ==
    LET sel == SelectCircles(children)
        drawn == EnterAppend(BindData(children, sel, D), sel, D, "circle")
    IN  [i \in 1..Len(drawn) |->
            IF IsCircle(drawn[i]) THEN [DotAttrs(sc, drawn[i]) EXCEPT !.fill = color]
            ELSE drawn[i]]

\* bounds.selectAll("circle").data(dataset).enter().append("circle")
\*   .attr("cx", ...).attr("cy", ...).attr("r", 5).attr("fill", color)
drawDots(sc, children, D, color) ==
    LET sel == SelectCircles(children)
        ids == EnterIds(children, sel, D)
        drawn == EnterAppend(BindData(children, sel, D), sel, D, "circle")
    IN  [i \in 1..Len(drawn) |->
            IF drawn[i].id \in SeqRange(ids)
            THEN [DotAttrs(sc, drawn[i]) EXCEPT !.fill = color]
            ELSE drawn[i]]

\* the README's drawScatter suspended at its await
InitEnter ==
    /\ script = "part_000"
    /\ window \in Windows
    /\ pc = "fetching"
    /\ dataset = <<>>
    /\ dimensions = NoDimensions
    /\ scales = NoScales
    /\ svg = <<>>
    /\ bounds = <<>>
    /\ tooltip = TooltipInit
    /\ other = NoInvocation
    /\ event = NoEvent

\* the fetch resolves: dimensions, canvas and scales as in part_000, then
\* drawDots(dataset.slice(0, n), "gray") and the setTimeout call
DrawSlice ==
    /\ pc = "fetching"
    /\ \E D \in Datasets :
         /\ dataset' = D
         /\ dimensions' = Dimensions(script, window)
         /\ scales' = Scales(script, D, dimensions')
         /\ svg' = svg \o RenderSvg(dimensions')
         /\ \E n \in 0..Len(D) :
               /\ bounds' = drawDots(scales', <<>>, SubSeq(D, 1, n), gray)
               /\ event' = [NoEvent EXCEPT !.type = "draw", !.data = SubSeq(D, 1, n)]
    /\ pc' = "timer"
    /\ UNCHANGED <<script, window, other, tooltip>>

\* the timer fires: drawDots(dataset, "cornflowerblue")
TimerFires ==
    /\ pc = "timer"
    /\ bounds' = drawDots(scales, bounds, dataset, cornflowerblue)
    /\ pc' = "rendered"
    /\ event' = [NoEvent EXCEPT !.type = "timeout", !.data = dataset,
                                !.dots = Len(bounds)]
    /\ UNCHANGED <<script, window, other, dataset, dimensions, scales, svg, tooltip>>

NextEnter == DrawSlice \/ FetchReject \/ TimerFires

SpecEnter == InitEnter /\ [][NextEnter]_vars

-------------------------------------------------------------------------------
(* drawScatter after the await, one statement at a time. The statements run *)
(* in one task; the browser dispatches a pointer event to a listener only   *)
(* between tasks.                                                           *)

\* the binding of "const tooltip" before its declaration has run
Uninitialized == [binding |-> "uninitialized"]

\* the statements after the await, in source order
Program(s) ==
    CASE s = "part_000" -> <<"dimensions", "canvas", "scales", "dots">>
      [] s = "part_001" -> <<"dimensions", "canvas", "scales", "dots", "voronoi",
                             "axes", "tooltip">>
      [] s = "part_004" -> <<"dimensions", "canvas", "background", "scales", "dots",
                             "axes", "tooltip", "voronoi">>
      [] s = "part_005" -> <<"dimensions", "canvas", "scales", "dots", "voronoi",
                             "axes", "tooltip", "listen">>

\* where control is once statement p of script s has run
After(s, p) ==
    LET k == IndexIn(Program(s), p)
    IN  IF k = Len(Program(s)) THEN "rendered" ELSE Program(s)[k + 1]

\* mutant: an event is dispatched as soon as its target has a listener
Idle_Always(p) == TRUE

\* no statement of drawScatter is on the stack: it is suspended at the await,
\* has returned, or has thrown
Idle(p) == p \in {"fetching", "rendered", "rejected"}

\* what statement p leaves in the bounds group
StatementBounds(s, p, sc, dim, D, children, kept) ==
    CASE p = "background" -> DrawBackground(children, dim)
      [] p = "dots" -> DrawDots(s, sc, children, D)
      [] p = "voronoi" ->
            DrawVoronoi(s, SetVoronoiBounds(VoronoiOf(DelaunayFrom(sc, D, kept)), dim),
                        children, D)
      [] p = "axes" -> DrawAxes(children)
      [] p = "listen" -> ListenVoronoi(children)
      [] OTHER -> children

InitSteps ==
    /\ script \in Scripts
    /\ window \in Windows
    /\ pc = "fetching"
    /\ dataset = <<>>
    /\ dimensions = NoDimensions
    /\ scales = NoScales
    /\ svg = <<>>
    /\ bounds = <<>>
    /\ tooltip = Uninitialized
    /\ other = NoInvocation
    /\ event = NoEvent

\* await d3.json(...) resolves: drawScatter resumes with the array
Resume ==
    /\ pc = "fetching"
    /\ \E D \in Datasets : dataset' = D
    /\ pc' = Program(script)[1]
    /\ event' = [NoEvent EXCEPT !.type = "resume"]
    /\ UNCHANGED <<script, window, other, dimensions, scales, svg, bounds, tooltip>>

\* the statement at pc runs
Statement ==
    /\ pc \in SeqRange(Program(script))
    /\ dimensions' = IF pc = "dimensions" THEN Dimensions(script, window) ELSE dimensions
    /\ svg' = IF pc = "canvas" THEN svg \o RenderSvg(dimensions) ELSE svg
    /\ scales' = IF pc = "scales" THEN Scales(script, dataset, dimensions) ELSE scales
    /\ tooltip' = IF pc = "tooltip" THEN TooltipInit ELSE tooltip
    /\ \E kept \in (IF pc = "voronoi" THEN KeptSets(Points(scales, dataset)) ELSE {{}}) :
          bounds' = StatementBounds(script, pc, scales, dimensions, dataset, bounds, kept)
    /\ pc' = After(script, pc)
    /\ event' = [NoEvent EXCEPT !.type = pc]
    /\ UNCHANGED <<script, window, other, dataset>>

\* a mouseenter is dispatched: onMouseEnter(event, d) runs; the highlight
\* circle is appended before the first use of tooltip, which throws a
\* ReferenceError while the binding is uninitialised
HandleMouseEnter ==
    /\ Idle(pc)
    /\ Len(Dots(bounds)) < MaxDots
    /\ \E i \in 1..Len(bounds) :
         /\ Hoverable(bounds[i], "mouseenter")
         /\ bounds' = EnterBounds(script, scales, bounds, bounds[i].datum[1])
         /\ tooltip' = IF tooltip = Uninitialized THEN tooltip
                       ELSE EnterTooltip(script, scales, dimensions, tooltip,
                                         bounds[i].datum[1])
         /\ event' = EnterEvent(bounds, bounds[i])
    /\ UNCHANGED <<script, window, other, pc, dataset, dimensions, scales, svg>>

\* a mouseleave is dispatched: onMouseLeave() runs
HandleMouseLeave ==
    /\ Idle(pc)
    /\ \E i \in 1..Len(bounds) :
         /\ Hoverable(bounds[i], "mouseleave")
         /\ tooltip' = IF tooltip = Uninitialized THEN tooltip
                       ELSE LeaveTooltip(script, tooltip)
         /\ bounds' = IF tooltip = Uninitialized /\ script = "part_001" THEN bounds
                      ELSE LeaveBounds(script, bounds)
         /\ event' = LeaveEvent(bounds)
    /\ UNCHANGED <<script, window, other, pc, dataset, dimensions, scales, svg>>

NextSteps == Resume \/ FetchReject \/ Statement \/ HandleMouseEnter \/ HandleMouseLeave

SpecSteps == InitSteps /\ [][NextSteps]_vars

-------------------------------------------------------------------------------
(* The pointer over the rendered plot. The browser keeps the element under  *)
(* the pointer; it finds it again when the pointer moves and when the       *)
(* document changes, and dispatches mouseleave to the element the pointer   *)
(* has left and mouseenter to the one it has entered.                       *)

\* the window with the pointer: where it is, in the coordinates of the bounds
\* group (Absent: outside the plot), and the id of the element it is over
\* (0: none)
PointerWindows ==
    { [innerWidth |-> w.innerWidth, innerHeight |-> w.innerHeight,
       pointer |-> Absent, over |-> 0] : w \in Windows }

\* the position of a circle: its centre
MarkPos(e) == <<e.cx, e.cy>>

\* the pointer is on the painted area of e, and e is not inert to it: a
\* circle's disc, a voronoi path's cell (its fill "transparent" is painted)
Hits(e, q) ==
    /\ q # Absent
    /\ e.pointerEvents # "none"
    /\ \/ /\ IsVoronoi(e)
          /\ e.d # Absent
          /\ CellContains(e.d[1], q)
       \/ /\ IsCircle(e)
          /\ e.cx # Absent /\ e.cy # Absent /\ e.r # Absent
          /\ RLe(Dist2(q, <<e.cx, e.cy>>), RMul(e.r, e.r))

\* hit testing: the id of the topmost element under the pointer, the last in
\* document order
Target(children, q) ==
    LET under == {i \in 1..Len(children) : Hits(children[i], q)}
    IN  IF under = {} THEN 0
        ELSE children[CHOOSE i \in under : \A j \in under : j <= i].id

\* the element of the bounds group with this id listens to the event type
Listens(children, id, type) ==
    \E i \in 1..Len(children) : children[i].id = id /\ Hoverable(children[i], type)

MaxHoverLen == 2   \* longest dataset the pointer is moved over
HoverGridN == 2    \* pointer locations per axis of the plot rectangle, less one

HoverDatasets == SeqsUpTo(ExampleRecords, MaxHoverLen)

\* where the pointer can be put: on a grid over the bounded rectangle, on a
\* mark, or outside the plot
PointerSpots(children, dim) ==
    { <<RDiv(RMul(Num(gx), dim.boundedWidth), Num(HoverGridN)),
        RDiv(RMul(Num(gy), dim.boundedHeight), Num(HoverGridN))>> :
          gx \in 0..HoverGridN, gy \in 0..HoverGridN }
        \cup {MarkPos(Marks(children)[i]) : i \in 1..Len(Marks(children))}
        \cup {Absent}

InitPointer ==
    /\ script \in Scripts
    /\ window \in PointerWindows
    /\ pc = "fetching"
    /\ dataset = <<>>
    /\ dimensions = NoDimensions
    /\ scales = NoScales
    /\ svg = <<>>
    /\ bounds = <<>>
    /\ tooltip = TooltipInit
    /\ other = NoInvocation
    /\ event = NoEvent

\* await d3.json(...) resolves
PointerResolve ==
    /\ pc = "fetching"
    /\ \E D \in HoverDatasets : DrawScatter(D)

\* the user moves the pointer, once the events of the last move are handled
PointerMove ==
    /\ pc = "rendered"
    /\ Target(bounds, window.pointer) = window.over
    /\ \E q \in PointerSpots(bounds, dimensions) :
          /\ q # window.pointer
          /\ window' = [window EXCEPT !.pointer = q]
    /\ event' = [NoEvent EXCEPT !.type = "move"]
    /\ UNCHANGED <<script, other, pc, dataset, dimensions, scales, svg, bounds, tooltip>>

\* the pointer is no longer over the element it was over: mouseleave is
\* dispatched to it and onMouseLeave() runs
DispatchLeave ==
    /\ pc = "rendered"
    /\ window.over # 0
    /\ Target(bounds, window.pointer) # window.over
    /\ window' = [window EXCEPT !.over = 0]
    /\ IF Listens(bounds, window.over, "mouseleave")
       THEN /\ bounds' = LeaveBounds(script, bounds)
            /\ tooltip' = LeaveTooltip(script, tooltip)
            /\ event' = LeaveEvent(bounds)
       ELSE /\ event' = [NoEvent EXCEPT !.type = "out"]
            /\ UNCHANGED <<bounds, tooltip>>
    /\ UNCHANGED <<script, other, pc, dataset, dimensions, scales, svg>>

\* the pointer is over an element it was not over: mouseenter is dispatched
\* to it and onMouseEnter(event, d) runs with the element's datum
DispatchEnter ==
    /\ pc = "rendered"
    /\ window.over = 0
    /\ \E i \in 1..Len(bounds) :
         /\ bounds[i].id = Target(bounds, window.pointer)
         /\ window' = [window EXCEPT !.over = bounds[i].id]
         /\ IF Hoverable(bounds[i], "mouseenter")
            THEN /\ bounds' = EnterBounds(script, scales, bounds, bounds[i].datum[1])
                 /\ tooltip' = EnterTooltip(script, scales, dimensions, tooltip,
                                            bounds[i].datum[1])
                 /\ event' = EnterEvent(bounds, bounds[i])
            ELSE /\ event' = [NoEvent EXCEPT !.type = "over"]
                 /\ UNCHANGED <<bounds, tooltip>>
    /\ UNCHANGED <<script, other, pc, dataset, dimensions, scales, svg>>

NextPointer ==
    PointerResolve \/ FetchReject \/ PointerMove \/ DispatchLeave \/ DispatchEnter

SpecPointer == InitPointer /\ [][NextPointer]_vars

------------------------------------------------------------------------------
(* Properties *)

Cells(children) == SelectSeq(children, IsVoronoi)

HasCells == script \in {"part_001", "part_004", "part_005"}

\* C1: once the data join of a script has completed, the bounds group holds
\* exactly |D| primary circle marks, and before any pointer event these are
\* all the circles there are (also for the empty and the one-record dataset).
C1_MarkCount ==
    pc = "rendered" =>
        /\ Len(Marks(bounds)) = Len(dataset)
        /\ event.type = "render" => Len(SelectCircles(bounds)) = Len(dataset)

C1_Witness ==
    /\ pc = "rendered" /\ event.type = "render"
    /\ Len(dataset) = 1 /\ Len(SelectCircles(bounds)) = 1

\* C2 as stated: in every script, each primary mark has
\* cx = xScale(xAccessor(r)) and cy = yScale(yAccessor(r)) for its record r.
C2_EveryScript ==
    pc = "rendered" =>
        \A i \in 1..Len(Marks(bounds)) :
            LET e == Marks(bounds)[i]
            IN  /\ e.cx = xScale(scales, xAccessor(e.datum[1]))
                /\ e.cy = yScale(scales, yAccessor(e.datum[1]))

\* C2 amended: in the scripts that draw with join and the attribute setters
\* (part_001, part_004, part_005) the i-th primary mark is bound to record i
\* and has cx = xScale(xAccessor(r)), cy = yScale(yAccessor(r)); the
\* enter-only script part_000 binds the records but sets no cx and no cy.
C2_Positions ==
    pc = "rendered" =>
        /\ Len(Marks(bounds)) = Len(dataset)
        /\ \A i \in 1..Len(Marks(bounds)) :
              LET e == Marks(bounds)[i]
              IN  /\ e.datum = <<dataset[i]>>
                  /\ IF script = "part_000"
                     THEN e.cx = Absent /\ e.cy = Absent
                     ELSE /\ e.cx = xScale(scales, xAccessor(dataset[i]))
                          /\ e.cy = yScale(scales, yAccessor(dataset[i]))

C2_Witness ==
    /\ pc = "rendered" /\ script = "part_005" /\ Len(dataset) = 2
    /\ Len(Marks(bounds)) = 2
    /\ Marks(bounds)[1].cx # Marks(bounds)[2].cx
    /\ Marks(bounds)[1].cy # Marks(bounds)[2].cy

\* C3: running the circle data join and its setters again on the same bounds
\* group with the array that is already bound adds no node, removes none and
\* changes no attribute: the group is as it was.
C3_Idempotent ==
    [][(event'.type = "redraw" /\ event'.same /\ script # "part_000")
          => bounds' = bounds]_vars

C3_Witness ==
    /\ event.type = "redraw" /\ event.same
    /\ script = "part_005" /\ Len(event.data) = 2
    /\ Len(Marks(bounds)) = 2

MarkAttrs(e) == <<e.cx, e.cy, e.fill>>

\* the draw step has just run again with the bound array less one record
RemovedOne == event'.type = "redraw" /\ event'.removed # {} /\ script # "part_000"

C5_HoverContent ==
    event.type = "mouseenter" =>
        /\ tooltip.opacity = 1
        /\ tooltip.humidity = Format2f(yAccessor(event.datum[1]))
        /\ tooltip.dewPoint = Format2f(xAccessor(event.datum[1]))

C5_Witness ==
    /\ event.type = "mouseenter" /\ event.dots = 1
    /\ Len(Dots(bounds)) = 2
    /\ Dots(bounds)[1].cx # Dots(bounds)[2].cx
    /\ tooltip.opacity = 1
    /\ tooltip.dewPoint = Format2f(xAccessor(event.datum[1]))

\* C6: in every script that wires hover handlers, after a mouseleave the
\* tooltip is not visible.
C6_LeaveHides == event.type = "mouseleave" => tooltip.opacity = 0

\* C7: after any mouseleave no highlight circle (class tooltipDot) remains,
\* however many mouseenter events came before it.
C7_NoDotAfterLeave == event.type = "mouseleave" => Dots(bounds) = <<>>

C7_Witness ==
    /\ event.type = "mouseleave" /\ event.dots = 2
    /\ Dots(bounds) = <<>>

\* C8: in every state reached by any sequence of mouseenter and mouseleave
\* events at most one highlight circle exists.
C8_OneHighlight == Len(Dots(bounds)) <= 1

\* C9: the i-th voronoi path is bound to record i; its cell, when it has
\* one, is the cell of point i, which is the position of record i's mark; a
\* path without a cell belongs to a record whose position coincides with
\* that of a record that has one; and a mouseenter on the i-th path hands
\* record i to onMouseEnter.
C9_CellOfRecord ==
    (pc = "rendered" /\ HasCells) =>
        LET cells == Cells(bounds)
            marks == Marks(bounds)
        IN  /\ Len(cells) = Len(dataset)
            /\ Len(marks) = Len(dataset)
            /\ \A i \in 1..Len(cells) :
                  /\ cells[i].datum = <<dataset[i]>>
                  /\ cells[i].d # Absent =>
                        /\ cells[i].d[1].site = i
                        /\ cells[i].d[1].points[i] = MarkPos(marks[i])
                  /\ cells[i].d = Absent =>
                        \E j \in 1..Len(cells) :
                            /\ cells[j].d # Absent
                            /\ MarkPos(marks[j]) = MarkPos(marks[i])
            /\ event.type = "mouseenter" =>
                  /\ event.index \in 1..Len(dataset)
                  /\ event.datum = <<dataset[event.index]>>

C9_Witness ==
    /\ event.type = "mouseenter" /\ event.index = 2
    /\ Len(dataset) >= 2 /\ dataset[1] # dataset[2]
    /\ Len(Marks(bounds)) >= 2
    /\ MarkPos(Marks(bounds)[1]) = MarkPos(Marks(bounds)[2])
    /\ event.datum = <<dataset[2]>>

\* probe locations: a grid over the bounded plot rectangle
Probes(dim) ==
    { <<RDiv(RMul(Num(gx), dim.boundedWidth), Num(GridN)),
        RDiv(RMul(Num(gy), dim.boundedHeight), Num(GridN))>> :
          gx \in 0..GridN, gy \in 0..GridN }

\* C10: when the tessellation has been drawn, every cell lies inside
\* [0, boundedWidth] x [0, boundedHeight]; every location of the plot
\* rectangle lies in some cell (when there is a record); and the cell
\* containing a location belongs to a record whose mark is at least as near
\* to it as every other record's mark.
C10_NearestCell ==
    (pc = "rendered" /\ event.type = "render" /\ HasCells) =>
        LET cells == Cells(bounds)
            marks == Marks(bounds)
        IN  /\ Len(marks) = Len(cells)
            /\ \A i \in 1..Len(cells) :
                  cells[i].d # Absent =>
                      LET c == cells[i].d[1]
                      IN  /\ RLe(Num(0), c.box[1]) /\ RLe(Num(0), c.box[2])
                          /\ RLe(c.box[3], dimensions.boundedWidth)
                          /\ RLe(c.box[4], dimensions.boundedHeight)
                          /\ \A p \in Probes(dimensions) :
                                CellContains(c, p) =>
                                    \A j \in 1..Len(marks) :
                                        RLe(Dist2(p, MarkPos(marks[i])),
                                            Dist2(p, MarkPos(marks[j])))
            /\ Len(cells) > 0 =>
                  \A p \in Probes(dimensions) :
                      \E i \in 1..Len(cells) :
                          cells[i].d # Absent /\ CellContains(cells[i].d[1], p)

C10_Witness ==
    /\ pc = "rendered" /\ event.type = "render"
    /\ script = "part_005" /\ Len(dataset) = 3
    /\ Len(Marks(bounds)) = 3
    /\ \A i, j \in 1..3 :
          i # j => MarkPos(Marks(bounds)[i]) # MarkPos(Marks(bounds)[j])
    /\ \A i \in 1..3 :
          /\ Cells(bounds)[i].d # Absent
          /\ \E p \in Probes(dimensions) :
                /\ CellContains(Cells(bounds)[i].d[1], p)
                /\ \A j \in 1..3 : j # i => ~CellContains(Cells(bounds)[j].d[1], p)

\* every occurrence of stage a comes before every occurrence of stage b
InOrder(stages, a, b) ==
    \A i, j \in 1..Len(stages) : (stages[i] = a /\ stages[j] = b) => i < j

\* the marks of a script: the circles of a scatterplot, the paths of a chart
MarkCount == IF script \in ChartScripts THEN Len(SelectPaths(script, bounds))
             ELSE Len(Marks(bounds))

C12_RejectHalts ==
    pc = "rejected" =>
        /\ svg = <<>> /\ bounds = <<>> /\ scales = NoScales /\ dataset = <<>>
        /\ tooltip = TooltipInit
        /\ ~ENABLED NextPage

C12_Witness ==
    /\ pc = "rejected" /\ script = "21-area-chart" /\ event.type = "reject"
    /\ svg = <<>>

\* C13: with drawScatter invoked twice on the same page, whichever fetch
\* completes first, the completion of one invocation leaves the other as it
\* is (nothing cancels, rejects or serialises it), and once both have
\* rendered the container holds two svg trees and the two bounds groups hold
\* |D| primary marks each, 2 * |D| in all.
C13_BothRender ==
    [][/\ (other.pc = "fetching" /\ pc' # pc) => other' = other
       /\ (pc = "fetching" /\ other'.pc # other.pc) =>
             UNCHANGED <<pc, dataset, scales, bounds>>
       /\ (pc' = "rendered" /\ other'.pc = "rendered") =>
             /\ Len(svg') = 2
             /\ other'.dataset = dataset'
             /\ Len(Marks(bounds')) = Len(dataset')
             /\ Len(Marks(other'.bounds)) = Len(dataset')
             /\ Len(Marks(bounds')) + Len(Marks(other'.bounds)) = 2 * Len(dataset')]_vars

\* both rendered, the invocation made second having completed first
C13_Witness ==
    /\ pc = "rendered" /\ other.pc = "rendered"
    /\ event.type = "render" /\ event.target = 0
    /\ script = "part_005" /\ Len(dataset) = 2
    /\ Len(svg) = 2
    /\ Len(Marks(bounds)) + Len(Marks(other.bounds)) = 4

\* the smaller of the window's inner width and inner height
SmallerSide == IF window.innerWidth <= window.innerHeight THEN window.innerWidth
               ELSE window.innerHeight

\* C14: in every window, the outer width and the outer height of a
\* scatterplot are equal, both are 0.9 times the smaller of the window's
\* inner width and inner height, and the svg has that size.
C14_SquareOuter ==
    (pc = "rendered" /\ script \in Scripts) =>
        /\ dimensions.width = dimensions.height
        /\ dimensions.width = Rat(9 * SmallerSide, 10)
        /\ svg[1].width = Rat(9 * SmallerSide, 10)
        /\ svg[1].height = Rat(9 * SmallerSide, 10)

C14_Witness ==
    /\ pc = "rendered" /\ script = "part_004"
    /\ window.innerWidth = 500 /\ window.innerHeight = 700
    /\ dimensions.width = Num(450) /\ dimensions.height = Num(450)

\* C15: in every scatterplot script boundedWidth = width - margin.left -
\* margin.right, boundedHeight = height - margin.top - margin.bottom and the
\* svg has the outer width and height; in the line and area charts the svg
\* (800 x 500, 800 x 565) is the plot size plus the opposing margins.
C15_BoundedSize ==
    pc = "rendered" =>
        LET m == dimensions.margin
        IN  IF script \in Scripts
            THEN /\ dimensions.boundedWidth =
                        RSub(dimensions.width, Num(m.left + m.right))
                 /\ dimensions.boundedHeight =
                        RSub(dimensions.height, Num(m.top + m.bottom))
                 /\ svg[1].width = dimensions.width
                 /\ svg[1].height = dimensions.height
                 /\ m = (IF script = "part_004"
                         THEN [top |-> 20, right |-> 20, bottom |-> 50, left |-> 70]
                         ELSE [top |-> 10, right |-> 10, bottom |-> 50, left |-> 50])
            ELSE /\ svg[1].width = Num(800)
                 /\ svg[1].height = Num(IF script = "20-line-chart" THEN 500 ELSE 565)
                 /\ dimensions.width = RSub(svg[1].width, Num(m.left + m.right))
                 /\ dimensions.height = RSub(svg[1].height, Num(m.top + m.bottom))

C15_Witness ==
    /\ pc = "rendered" /\ script = "part_004"
    /\ window.innerWidth = 500 /\ window.innerHeight = 700
    /\ dimensions.boundedWidth = Num(360)
    /\ dimensions.boundedHeight = Num(380)
    /\ svg[1].width = Num(450)

\* C16: the dimension calculation never yields a negative boundedWidth or
\* boundedHeight: when the margins exceed the outer size the render does not
\* complete or the bounded size is zero.
C16_NeverNegative ==
    (pc = "rendered" /\ script \in Scripts) =>
        /\ RLe(Num(0), dimensions.boundedWidth)
        /\ RLe(Num(0), dimensions.boundedHeight)

\* the size of the plot area of the script on the page
PlotWidth == IF script \in ChartScripts THEN dimensions.width
             ELSE dimensions.boundedWidth
PlotHeight == IF script \in ChartScripts THEN dimensions.height
              ELSE dimensions.boundedHeight

\* a domain's two bounds and the value halfway between them
DomainProbes(d) == {d[1], d[2], RDiv(RAdd(d[1], d[2]), Num(2))}

\* C17 as stated: the y scale maps its domain minimum to boundedHeight and
\* its maximum to 0 and is non-increasing over the domain; the x scale maps
\* its domain minimum to 0 and its maximum to boundedWidth.
C17_Inverted ==
    pc = "rendered" =>
        /\ yScale(scales, scales.yDomain[1]) = PlotHeight
        /\ yScale(scales, scales.yDomain[2]) = Num(0)
        /\ xScale(scales, scales.xDomain[1]) = Num(0)
        /\ xScale(scales, scales.xDomain[2]) = PlotWidth
        /\ \A a, b \in DomainProbes(scales.yDomain) :
              RLe(a, b) => RLe(yScale(scales, b), yScale(scales, a))

\* C17 amended: when a position scale's domain has two distinct bounds the
\* y scale maps the lower to the plot height and the upper to 0, the x scale
\* the lower to 0 and the upper to the plot width, and the y scale is
\* non-increasing when the plot height is not negative (non-decreasing when
\* it is negative); when the domain's bounds are equal every value maps to
\* the middle of the range; when the dataset is empty the scale returns NaN.
C17_ScaleEnds ==
    pc = "rendered" =>
        LET yd == scales.yDomain
            xd == scales.xDomain
        IN  /\ RLt(yd[1], yd[2]) =>
                  /\ yScale(scales, yd[1]) = PlotHeight
                  /\ yScale(scales, yd[2]) = Num(0)
                  /\ \A a, b \in DomainProbes(yd) :
                        RLe(a, b) =>
                            IF RLe(Num(0), PlotHeight)
                            THEN RLe(yScale(scales, b), yScale(scales, a))
                            ELSE RLe(yScale(scales, a), yScale(scales, b))
            /\ RLt(xd[1], xd[2]) =>
                  /\ xScale(scales, xd[1]) = Num(0)
                  /\ xScale(scales, xd[2]) = PlotWidth
            /\ (~IsNaN(yd[1]) /\ yd[1] = yd[2]) =>
                  yScale(scales, yd[1]) = RDiv(PlotHeight, Num(2))
            /\ (~IsNaN(xd[1]) /\ xd[1] = xd[2]) =>
                  xScale(scales, xd[1]) = RDiv(PlotWidth, Num(2))
            /\ (IsNaN(yd[1]) \/ IsNaN(xd[1])) =>
                  /\ IsNaN(yd[1]) /\ IsNaN(xd[1])
                  /\ IsNaN(yScale(scales, Num(1))) /\ IsNaN(xScale(scales, Num(1)))
                  /\ \A c \in 1..Len(dataset) :
                        script \in ChartScripts /\ dataset[c].values = <<>>
                  /\ script \in Scripts => dataset = <<>>

C17_Witness ==
    /\ pc = "rendered" /\ script = "part_005" /\ window.innerHeight = 700
    /\ Len(dataset) = 2 /\ yAccessor(dataset[1]) # yAccessor(dataset[2])
    /\ yScale(scales, scales.yDomain[1]) = Num(390)
    /\ yScale(scales, scales.yDomain[2]) = Num(0)
    /\ RLt(scales.yDomain[1], scales.yDomain[2])

\* x is a whole multiple of the tick step (a negative increment stands for
\* the step 1 / -increment)
IsMultiple(x, inc) ==
    IF RLt(Num(0), inc) THEN RDiv(x, inc)[2] = 1
    ELSE RMul(x, RSub(Num(0), inc))[2] = 1

\* C18: nice() rounds the domain outward to multiples of the tick step: the
\* niced domain contains the raw extent and, for an extent with min < max,
\* both bounds are whole multiples of the step of the niced domain; an
\* extent without values or with min = max is left as it is.  The extent
\* [11.8, 77.26] becomes [10, 80] and [0.27, 0.97] becomes [0.2, 1].
C18_NiceOutward ==
    event.type = "nice" =>
        LET raw == event.data
            n == scales.xDomain
        IN  /\ RLt(raw[1], raw[2]) =>
                  /\ RLe(n[1], raw[1]) /\ RLe(raw[2], n[2])
                  /\ IsMultiple(n[1], TickIncrement(n[1], n[2], 10))
                  /\ IsMultiple(n[2], TickIncrement(n[1], n[2], 10))
            /\ ~RLt(raw[1], raw[2]) => n = raw
            /\ raw = <<<<59, 5>>, <<3863, 50>>>> => n = <<Num(10), Num(80)>>
            /\ raw = <<<<27, 100>>, <<97, 100>>>> => n = <<<<1, 5>>, Num(1)>>

C18_Witness ==
    /\ event.type = "nice"
    /\ event.data = <<<<59, 5>>, <<3863, 50>>>>
    /\ scales.xDomain = <<Num(10), Num(80)>>

\* the scripts that fill the marks through a colour scale
ColorScripts == Scripts \ {"part_000"}

\* the cloudCover of the record bound to a mark
CoverOf(m) == colorAccessor(m.datum[1])

\* colour f is at least as close to the dark end as colour g: no channel of
\* f is above the same channel of g (every channel falls from skyblue to
\* darkslategrey)
AsDark(f, g) == \A k \in 1..3 : f[k] <= g[k]

\* the colour domain is the raw extent: its bounds are the least and the
\* greatest cloudCover of the dataset themselves
RawColorDomain ==
    /\ \E i \in 1..Len(dataset) : colorAccessor(dataset[i]) = scales.colorDomain[1]
    /\ \E i \in 1..Len(dataset) : colorAccessor(dataset[i]) = scales.colorDomain[2]
    /\ \A i \in 1..Len(dataset) :
          /\ RLe(scales.colorDomain[1], colorAccessor(dataset[i]))
          /\ RLe(colorAccessor(dataset[i]), scales.colorDomain[2])

\* C19 as stated: in every rendering of a dataset with records the colour
\* domain is the raw extent of cloudCover, the records with the least
\* cloudCover are filled skyblue, those with the greatest darkslategrey, and a
\* lower cloudCover is never closer to the dark end.
C19_MinLightMaxDark ==
    (pc = "rendered" /\ script \in ColorScripts /\ Len(dataset) > 0) =>
        /\ RawColorDomain
        /\ \A k \in 1..Len(Marks(bounds)) :
              LET m == Marks(bounds)[k]
              IN  /\ CoverOf(m) = scales.colorDomain[1] => m.fill = skyblue
                  /\ CoverOf(m) = scales.colorDomain[2] => m.fill = darkslategrey
        /\ \A k, l \in 1..Len(Marks(bounds)) :
              RLe(CoverOf(Marks(bounds)[k]), CoverOf(Marks(bounds)[l]))
                  => AsDark(Marks(bounds)[l].fill, Marks(bounds)[k].fill)

\* C19: the colour domain is the raw extent of cloudCover, not niced.  When
\* cloudCover takes at least two values in the dataset, the records with the
\* least are filled skyblue, those with the greatest darkslategrey, and a
\* lower cloudCover is never closer to the dark end.  When every record has
\* the same cloudCover (a dataset of one record), every mark is filled with
\* the colour halfway between the two ends.  part_000 has no colour scale
\* and sets no fill.
C19_ColorExtent ==
    /\ (pc = "rendered" /\ script \in ColorScripts /\ Len(dataset) > 0) =>
          /\ RawColorDomain
          /\ Len(Marks(bounds)) = Len(dataset)
          /\ \A k \in 1..Len(Marks(bounds)) : Marks(bounds)[k].datum = <<dataset[k]>>
          /\ scales.colorDomain[1] # scales.colorDomain[2] =>
                /\ \A k \in 1..Len(Marks(bounds)) :
                      LET m == Marks(bounds)[k]
                      IN  /\ CoverOf(m) = scales.colorDomain[1] => m.fill = skyblue
                          /\ CoverOf(m) = scales.colorDomain[2] => m.fill = darkslategrey
                /\ \A k, l \in 1..Len(Marks(bounds)) :
                      RLe(CoverOf(Marks(bounds)[k]), CoverOf(Marks(bounds)[l]))
                          => AsDark(Marks(bounds)[l].fill, Marks(bounds)[k].fill)
          /\ scales.colorDomain[1] = scales.colorDomain[2] =>
                \A k \in 1..Len(Marks(bounds)) : Marks(bounds)[k].fill = <<91, 143, 157>>
    /\ (pc = "rendered" /\ script = "part_000") =>
          \A k \in 1..Len(Marks(bounds)) : Marks(bounds)[k].fill = Absent

C19_Witness ==
    /\ pc = "rendered"
    /\ script = "part_005"
    /\ Len(dataset) = 3
    /\ scales.colorDomain = <<<<27, 100>>, <<9, 10>>>>
    /\ \E k, l, m \in 1..Len(Marks(bounds)) :
          /\ Marks(bounds)[k].fill = skyblue
          /\ Marks(bounds)[l].fill = darkslategrey
          /\ Marks(bounds)[m].fill \notin {skyblue, darkslategrey}

\* C20 as stated: a scatterplot rendered from an empty dataset has scales
\* with a usable domain, none of whose outputs is NaN (a construction that
\* fails fast instead would leave the page unrendered).
C20_NoNaNScale ==
    (pc = "rendered" /\ script \in Scripts /\ dataset = <<>>) =>
        /\ \A k \in 1..2 : ~IsNaN(scales.xDomain[k]) /\ ~IsNaN(scales.yDomain[k])
        /\ \A r \in Records :
              /\ ~IsNaN(xScale(scales, xAccessor(r)))
              /\ ~IsNaN(yScale(scales, yAccessor(r)))

\* the first value of the field that is not missing is the non-numeric string
StringFirst(values) ==
    \E i \in 1..Len(values) :
        /\ IsString(values[i])
        /\ \A j \in 1..(i - 1) : values[j] = Undefined

\* the numbers among the values
Numbers(values) == SelectSeq(values, LAMBDA v : Len(v) = 2)

C22_RecordsImmutable ==
    (pc = "rendered" /\ script \in ChartScripts /\ event.type = "render") =>
        dataset = event.data

\* the squared distance of two colours
ColorDist2(f, g) ==
    (f[1] - g[1]) * (f[1] - g[1]) + (f[2] - g[2]) * (f[2] - g[2])
        + (f[3] - g[3]) * (f[3] - g[3])

TheExample ==
    << Rec(Num(40), <<1, 2>>, <<1, 5>>, <<2019, 1, 1>>),
       Rec(Num(60), <<4, 5>>, <<9, 10>>, <<2019, 1, 2>>) >>

\* C23: for the dataset [{dewPoint: 40, humidity: 0.5, cloudCover: 0.2},
\* {dewPoint: 60, humidity: 0.8, cloudCover: 0.9}] and a bounded area of 500
\* by 500 the draw step makes exactly two marks, the first at (0, 500) and
\* the second at (500, 0) whatever the script, and the first mark's fill is
\* nearer to skyblue, the second's nearer to darkslategrey.
C23_TwoMarks ==
    (pc = "marks" /\ dataset = TheExample /\ dimensions.boundedWidth = Num(500)
        /\ script \in ColorScripts) =>
        /\ Len(bounds) = 2 /\ Len(Marks(bounds)) = 2
        /\ MarkPos(bounds[1]) = <<Num(0), Num(500)>>
        /\ MarkPos(bounds[2]) = <<Num(500), Num(0)>>
        /\ ColorDist2(bounds[1].fill, skyblue) < ColorDist2(bounds[1].fill, darkslategrey)
        /\ ColorDist2(bounds[2].fill, darkslategrey) < ColorDist2(bounds[2].fill, skyblue)

C23_Witness ==
    /\ pc = "marks" /\ dataset = TheExample /\ script = "part_005"
    /\ dimensions.boundedWidth = Num(500) /\ dimensions.boundedHeight = Num(500)
    /\ Len(Marks(bounds)) = 2
    /\ bounds[1].fill = skyblue /\ bounds[2].fill = darkslategrey

\* C24: when the enter-only draw has drawn a prefix D1 of D in gray and then
\* draws all of D in cornflowerblue on the same bounds group, the |D1| marks
\* of the first draw stay the same nodes with the attributes of the first
\* draw, |D| - |D1| marks are appended for the other records with the second
\* draw's colour and their own positions, and the group holds |D| marks.
C24_EnterOnly ==
    [][ (pc = "timer" /\ pc' = "rendered") =>
          /\ Len(bounds') = Len(dataset)
          /\ Len(Marks(bounds')) = Len(dataset)
          /\ \A k \in 1..Len(bounds) :
                /\ bounds'[k] = bounds[k]
                /\ bounds[k].fill = gray
          /\ \A k \in (Len(bounds) + 1)..Len(bounds') :
                /\ bounds'[k].datum = <<dataset[k]>>
                /\ bounds'[k].fill = cornflowerblue
                /\ bounds'[k].cx = xScale(scales, xAccessor(dataset[k]))
                /\ bounds'[k].cy = yScale(scales, yAccessor(dataset[k]))
                /\ \A j \in 1..Len(bounds) : bounds[j].id # bounds'[k].id
      ]_vars

C24_Witness ==
    /\ pc = "rendered" /\ event.type = "timeout"
    /\ Len(dataset) = 3 /\ event.dots = 1
    /\ bounds[1].fill = gray
    /\ bounds[2].fill = cornflowerblue /\ bounds[3].fill = cornflowerblue

\* C25: after a mouseenter for record r the tooltip's translation is
\* (xScale(xAccessor(r)) + margin.left, yScale(yAccessor(r)) + margin.top),
\* which is the position of a mark bound to r moved by the translation of the
\* bounds group; and in the scripts that draw a highlight circle, the circle
\* just appended has that mark's cx and cy.
C25_TooltipAtMark ==
    event.type = "mouseenter" =>
        LET r == event.datum[1]
        IN  /\ tooltip.transform =
                  << RAdd(xScale(scales, xAccessor(r)), Num(dimensions.margin.left)),
                     RAdd(yScale(scales, yAccessor(r)), Num(dimensions.margin.top)) >>
            /\ \E k \in 1..Len(Marks(bounds)) :
                  /\ Marks(bounds)[k].datum = <<r>>
                  /\ tooltip.transform =
                        << RAdd(Marks(bounds)[k].cx, Num(svg[1].boundsTransform[1])),
                           RAdd(Marks(bounds)[k].cy, Num(svg[1].boundsTransform[2])) >>
                  /\ script \in {"part_004", "part_005"} =>
                        /\ IsTooltipDot(bounds[Len(bounds)])
                        /\ MarkPos(bounds[Len(bounds)]) = MarkPos(Marks(bounds)[k])
            /\ script = "part_001" => Dots(bounds) = <<>>

C25_Witness ==
    /\ event.type = "mouseenter" /\ script = "part_005"
    /\ Len(dataset) = 2
    /\ tooltip.transform = <<Num(530), Num(10)>>
    /\ Len(Dots(bounds)) = 1
    /\ MarkPos(Dots(bounds)[1]) = <<Num(480), Num(0)>>

\* C26: in a script with a tooltip, once the render pass has finished the
\* tooltip is hidden as long as no record is hovered: in the idle state
\* before the first mouseenter, and after every mouseleave.
C26_HiddenWhenIdle ==
    (HasCells /\ pc = "rendered" /\ event.type # "mouseenter") => tooltip.opacity = 0

\* C27: whenever onMouseEnter or onMouseLeave runs, every statement of the
\* render pass of drawScatter has run: the tooltip binding, the scales and
\* the dimensions are initialised, also in part_001, which registers the
\* handlers before the statement that declares the tooltip.
C27_HandlersAfterRender ==
    [][ (event'.type \in {"mouseenter", "mouseleave"}) =>
            /\ pc = "rendered"
            /\ tooltip # Uninitialized
            /\ tooltip' # Uninitialized
            /\ scales # NoScales
            /\ dimensions # NoDimensions ]_vars

C27_Witness ==
    /\ script = "part_001"
    /\ event.type = "mouseenter"
    /\ tooltip # Uninitialized
    /\ tooltip.opacity = 1
    /\ tooltip.transform # Absent

\* v is a number between lo and hi
Within(v, lo, hi) == v # Absent /\ ~IsNaN(v) /\ RLe(lo, v) /\ RLe(v, hi)

\* the paths of the line or area chart that have a shape
Series(children) == SelectSeq(children, LAMBDA e : e.tag = "path" /\ e.d # Absent)

\* C28: for a non-empty, all-numeric dataset every primary mark of a script
\* that positions its marks has 0 <= cx <= boundedWidth and
\* 0 <= cy <= boundedHeight, and every point of every series of the line and
\* the area chart lies in [0, width] x [0, height].
C28_InsidePlot ==
    (pc = "rendered" /\ dataset # <<>>) =>
        /\ script \in {"part_001", "part_004", "part_005"} =>
              \A i \in 1..Len(Marks(bounds)) :
                  /\ Within(Marks(bounds)[i].cx, Num(0), dimensions.boundedWidth)
                  /\ Within(Marks(bounds)[i].cy, Num(0), dimensions.boundedHeight)
        /\ script \in ChartScripts =>
              \A i \in 1..Len(Series(bounds)) :
                  LET pts == Series(bounds)[i].d[1].points
                  IN  \A k \in 1..Len(pts) :
                          /\ Within(pts[k][1], Num(0), dimensions.width)
                          /\ Within(pts[k][2], Num(0), dimensions.height)

\* C29: every highlight circle has pointer-events none; after a mouseenter
\* the element under the pointer is still the cell that was entered, so no
\* further event is due while the pointer stays where it is; a mouseleave is
\* dispatched only right after a move of the pointer, and a mouseenter only
\* right after a move or the mouseleave of the element left.
C29_InertHighlight ==
    [][ /\ \A i \in 1..Len(Dots(bounds')) : Dots(bounds')[i].pointerEvents = "none"
        /\ event'.type = "mouseenter" =>
              /\ event.type \in {"move", "mouseleave"}
              /\ window'.pointer = window.pointer
              /\ window'.over = event'.target
              /\ Target(bounds', window'.pointer) = window'.over
        /\ event'.type = "mouseleave" => event.type = "move" ]_vars

C29_Witness ==
    /\ script = "part_005"
    /\ event.type = "mouseenter"
    /\ Len(Dots(bounds)) = 1
    /\ window.pointer = MarkPos(Dots(bounds)[1])
    /\ window.over = event.target
    /\ window.over # 0

\* the children of the bounds group that are not highlight circles
NotDots(children) == SelectSeq(children, LAMBDA e : ~IsTooltipDot(e))

\* C30: a run of onMouseEnter or onMouseLeave changes nothing but the tooltip
\* and the highlight circles: the dataset, the dimensions, the scales, the
\* svg, the |D| primary marks with their attributes and data, the |D| cells
\* and every other child of the bounds group are as they were.
C30_HoverFrame ==
    [][ (event'.type \in {"mouseenter", "mouseleave"}) =>
            /\ dataset' = dataset
            /\ dimensions' = dimensions
            /\ scales' = scales
            /\ svg' = svg
            /\ Marks(bounds') = Marks(bounds)
            /\ Len(Marks(bounds')) = Len(dataset)
            /\ HasCells => Cells(bounds') = Cells(bounds)
            /\ HasCells => Len(Cells(bounds')) = Len(dataset)
            /\ NotDots(bounds') = NotDots(bounds) ]_vars

C30_Witness ==
    /\ script = "part_004"
    /\ event.type = "mouseleave" /\ event.dots = 1
    /\ Dots(bounds) = <<>>
    /\ Len(dataset) = 2
    /\ Len(Marks(bounds)) = 2 /\ Len(Cells(bounds)) = 2
    /\ tooltip.opacity = 1 /\ tooltip.transform # Absent

====
